---- MODULE Spec2Model ----
(***************************************************************************)
(* HtmlHandlebars::render and make_data of                                 *)
(* src/renderer/html_handlebars/hbs_renderer.rs as a state machine.        *)
(*                                                                         *)
(* One behaviour is one call of render(book): the book tree, the source    *)
(* tree and the theme template are chosen in Init, and every fallible      *)
(* statement of render (each try! / ?) is a step that either succeeds or   *)
(* returns the error.  Text (markdown, HTML, file bytes) is a sequence of  *)
(* tokens; the tokens that matter to the code are NL, CR and BASE, the     *)
(* substring `<base href=` that line 112 looks for.                        *)
(***************************************************************************)
EXTENDS Naturals, Sequences, FiniteSets, TLC

VARIABLES
    book,            \* the MDBook passed to render: items, title, livereload
    srcFiles,        \* the source tree: relative path -> file text
    template,        \* theme.index, by how its last line ends
    pc,              \* the statement render is about to execute
    i,               \* position of `for item in book.iter()` (line 59)
    j,               \* position in the list of theme assets / copied files
    data,            \* `data`, the context map (line 45)
    print_content,   \* `print_content` (line 48)
    index,           \* `index` (line 58)
    f,               \* `f`, the handle of the chapter's source file (line 69)
    content,         \* `content` (line 70, shadowed at line 105)
    rendered,        \* `rendered` (lines 94, 137)
    dest,            \* the destination tree: relative path -> file bytes
    destDir,         \* whether create_dir_all(book.get_dest()) has run
    log,             \* every write into the destination, in order
    calls,           \* the context of every handlebars.render call, in order
    errs             \* every failed operation: its step and Len(log) then

vars == <<book, srcFiles, template, pc, i, j, data, print_content, index, f,
          content, rendered, dest, destDir, log, calls, errs>>

----------------------------------------------------------------------------
(* Bounds *)

\* Longest book tree (number of BookItems) the model enumerates.
MaxItems == 2

\* Longest prefix of a file that a failing read_to_string is taken to have read.
MaxPartial == 1

----------------------------------------------------------------------------
(* Text *)

NL == "\n"
CR == "\r"
\* The literal that line 112 searches each line for.
BASE == "<base href="

EmptyMap == << >>

Insert(m, k, v) == [x \in DOMAIN m \cup {k} |-> IF x = k THEN v ELSE m[x]]

contains(line, tok) == \E n \in 1..Len(line) : line[n] = tok

FirstNL(t) == CHOOSE n \in 1..Len(t) : t[n] = NL /\ \A m \in 1..(n - 1) : t[m] # NL

\* One line of str::lines: a CR that precedes the NL belongs to the line ending.
StripCR(line, terminated) ==
    IF terminated /\ Len(line) > 0 /\ line[Len(line)] = CR
    THEN SubSeq(line, 1, Len(line) - 1)
    ELSE line

RECURSIVE lines(_)
\* str::lines: the lines of t without their endings (NL or CR NL); a final
\* line ending yields no further empty line.
lines(t) ==
    IF t = << >> THEN << >>
    ELSE IF ~contains(t, NL) THEN << StripCR(t, FALSE) >>
    ELSE LET n == FirstNL(t)
         IN  << StripCR(SubSeq(t, 1, n - 1), TRUE) >> \o lines(SubSeq(t, n + 1, Len(t)))

RECURSIVE join(_, _)
\* [&str]::join(sep): the pieces with sep between consecutive ones only.
join(ls, sep) ==
    IF ls = << >> THEN << >>
    ELSE IF Len(ls) = 1 THEN ls[1]
    ELSE ls[1] \o sep \o join(Tail(ls), sep)

\* Lines 111-114: drop every line that contains BASE, join the rest with "\n".
FilterBaseHref(t) ==
    join(SelectSeq(lines(t), LAMBDA line : ~contains(line, BASE)), << NL >>)

----------------------------------------------------------------------------
(* Paths *)

\* A relative path: its directories, the file stem and extension, and whether
\* the OS string is valid unicode (Path::to_str is None when it is not).
MkPath(dirs, stem, ext) == [dirs |-> dirs, stem |-> stem, ext |-> ext, utf8 |-> TRUE]

\* PathBuf::new()
EmptyPath == MkPath(<< >>, "", "")

\* Path::with_extension
with_extension(p, ext) == [p EXCEPT !.ext = ext]

\* Path::to_str, on a path whose text exists: the text names no encoding flag.
to_str(p) == << p.dirs, p.stem, p.ext >>

\* utils::fs::path_to_root: one "../" per directory of the path.
path_to_root(p) == [n \in 1..Len(p.dirs) |-> "../"]

IndexHtml == MkPath(<< >>, "index", "html")
PrintMd == MkPath(<< >>, "print", "md")
PrintHtml == with_extension(MkPath(<< >>, "print", ""), "html")

----------------------------------------------------------------------------
(* The inputs of a render *)

Chapter(s, name, path) == [kind |-> "Chapter", section |-> s, name |-> name, path |-> path]
Affix(name, path) == [kind |-> "Affix", section |-> "", name |-> name, path |-> path]
Spacer == [kind |-> "Spacer", section |-> "", name |-> "", path |-> EmptyPath]

AMd == MkPath(<< >>, "a", "md")
IndexMd == MkPath(<< >>, "index", "md")
NestedMd == MkPath(<< "d" >>, "b", "md")
BadMd == [MkPath(<< >>, "n", "md") EXCEPT !.utf8 = FALSE]

\* The BookItems book trees are built from.
ItemPool ==
    { Chapter("1.", "A", AMd),
      Affix("A again", AMd),
      Chapter("2.", "I", IndexMd),
      Chapter("3.", "P", PrintMd),
      Chapter("4.", "D", NestedMd),
      Chapter("5.", "Heading", EmptyPath),
      Affix("N", BadMd),
      Spacer }

RECURSIVE SeqsUpTo(_, _)
SeqsUpTo(S, n) ==
    IF n = 0 THEN { << >> }
    ELSE LET shorter == SeqsUpTo(S, n - 1)
         IN  shorter \cup { Append(s, x) : s \in { t \in shorter : Len(t) = n - 1 }, x \in S }

Books ==
    { [items |-> its, title |-> "T", description |-> "Desc", livereload |-> lr] :
        its \in SeqsUpTo(ItemPool, MaxItems), lr \in { "None", "ws://localhost" } }

\* Markdown sources.  index.md shows code with a base href on a line of its own;
\* d/b.md holds a playpen marker.
MdSources ==
    (AMd :> << "a" >>) @@
    (IndexMd :> << "i", NL, BASE, NL, "j" >>) @@
    (PrintMd :> << "p" >>) @@
    (NestedMd :> << "{{#playpen}}", "d" >>) @@
    (BadMd :> << "n" >>)

ImgPng == MkPath(<< >>, "img", "png")
AHtml == MkPath(<< >>, "a", "html")

\* Source trees: the markdown files plus non-markdown files, one of which may
\* sit where a rendered page goes.
SrcTrees ==
    { MdSources @@ (ImgPng :> << "png" >>),
      MdSources @@ (ImgPng :> << "png" >>) @@ (AHtml :> << "hand-written" >>) }

\* theme.index: how the template's last line ends.
Templates == { << NL >>, << >>, << CR, NL >> }

----------------------------------------------------------------------------
(* Collaborators: code of the repository and its libraries outside this file *)

\* helpers::playpen::render_playpen: substitutes the embed markers only.
render_playpen(t) ==
    [n \in 1..Len(t) |-> IF t[n] = "{{#playpen}}" THEN "<pre class=playpen>" ELSE t[n]]

\* utils::render_markdown: markdown text to an HTML fragment.
render_markdown(t) == << "<p>" >> \o t \o << "</p>", NL >>

\* handlebars.render("index", &data) with the registered theme template: the
\* page is a function of the context; a field the context lacks renders empty.
Render(d, tmpl) ==
    << "<title>" >>
    \o (IF "chapter_title" \in DOMAIN d THEN << d.chapter_title >> ELSE << >>)
    \o << " - ", d.title, "</title>", NL >>
    \o (IF "livereload" \in DOMAIN d THEN << "<script livereload>", NL >> ELSE << >>)
    \o << BASE >> \o d.path_to_root \o << ">", NL >>
    \o d.content
    \o << "</html>" >> \o tmpl

\* The theme's byte assets in the order lines 144-157 write them.
Assets ==
    << [file |-> MkPath(<< >>, "book", "js"), bytes |-> << "theme.js" >>],
       [file |-> MkPath(<< >>, "book", "css"), bytes |-> << "theme.css" >>],
       [file |-> MkPath(<< >>, "favicon", "png"), bytes |-> << "theme.favicon" >>],
       [file |-> MkPath(<< >>, "jquery", "js"), bytes |-> << "theme.jquery" >>],
       [file |-> MkPath(<< >>, "highlight", "css"), bytes |-> << "theme.highlight_css" >>],
       [file |-> MkPath(<< >>, "tomorrow-night", "css"), bytes |-> << "theme.tomorrow_night_css" >>],
       [file |-> MkPath(<< >>, "highlight", "js"), bytes |-> << "theme.highlight_js" >>],
       [file |-> MkPath(<< "_FontAwesome", "css" >>, "font-awesome", "css"), bytes |-> << "FONT_AWESOME" >>],
       [file |-> MkPath(<< "_FontAwesome", "fonts" >>, "fontawesome-webfont", "eot"), bytes |-> << "FONT_AWESOME_EOT" >>],
       [file |-> MkPath(<< "_FontAwesome", "fonts" >>, "fontawesome-webfont", "svg"), bytes |-> << "FONT_AWESOME_SVG" >>],
       [file |-> MkPath(<< "_FontAwesome", "fonts" >>, "fontawesome-webfont", "ttf"), bytes |-> << "FONT_AWESOME_TTF" >>],
       [file |-> MkPath(<< "_FontAwesome", "fonts" >>, "fontawesome-webfont", "woff"), bytes |-> << "FONT_AWESOME_WOFF" >>],
       [file |-> MkPath(<< "_FontAwesome", "fonts" >>, "fontawesome-webfont", "woff2"), bytes |-> << "FONT_AWESOME_WOFF2" >>],
       [file |-> MkPath(<< "_FontAwesome", "fonts" >>, "FontAwesome", "ttf"), bytes |-> << "FONT_AWESOME_TTF" >>] >>

----------------------------------------------------------------------------
(* make_data *)

\* Lines 182-204: the summary of one BookItem.
ChapterEntry(item) ==
    CASE item.kind = "Affix" ->
            [name |-> item.name, path |-> to_str(item.path)]
      [] item.kind = "Chapter" ->
            [section |-> item.section, name |-> item.name, path |-> to_str(item.path)]
      [] OTHER ->
            [spacer |-> "_spacer_"]

\* Lines 169-176: the global fields.
GlobalFields(b) ==
    LET base == [language |-> "en", title |-> b.title,
                 description |-> b.description, favicon |-> "favicon.png"]
    IN  IF b.livereload # "None" THEN Insert(base, "livereload", b.livereload) ELSE base

\* make_data without the to_str checks of lines 187 and 194.
make_dataUnchecked(b) ==
    [ok |-> TRUE,
     val |-> Insert(GlobalFields(b), "chapters",
                    [n \in 1..Len(b.items) |-> ChapterEntry(b.items[n])])]

\* make_data pushing a summary for Chapters and Affixes only.
make_dataSkipSpacers(b) ==
    IF \E n \in 1..Len(b.items) : b.items[n].kind # "Spacer" /\ ~b.items[n].path.utf8
    THEN [ok |-> FALSE, val |-> EmptyMap]
    ELSE LET kept == SelectSeq(b.items, LAMBDA it : it.kind # "Spacer")
         IN  [ok |-> TRUE,
              val |-> Insert(GlobalFields(b), "chapters",
                             [n \in 1..Len(kept) |-> ChapterEntry(kept[n])])]

\* make_data(book): Err when a Chapter's or Affix's path has no text (lines
\* 187, 194), else the context with one chapters entry per item.
make_data(b) ==
    IF \E n \in 1..Len(b.items) : b.items[n].kind # "Spacer" /\ ~b.items[n].path.utf8
    THEN [ok |-> FALSE, val |-> EmptyMap]
    ELSE [ok |-> TRUE,
          val |-> Insert(GlobalFields(b), "chapters",
                         [n \in 1..Len(b.items) |-> ChapterEntry(b.items[n])])]

----------------------------------------------------------------------------
(* render *)

Closed == [open |-> FALSE, node |-> 0, eof |-> FALSE]

item == book.items[i]

\* Line 64 under the match of lines 61-63: the item has a page of its own.
HasPage(it) == it.kind # "Spacer" /\ it.path # EmptyPath

Init ==
    /\ book \in Books
    /\ srcFiles \in SrcTrees
    /\ template \in Templates
    /\ pc = "register"
    /\ i = 0
    /\ j = 0
    /\ data = EmptyMap
    /\ print_content = << >>
    /\ index = FALSE
    /\ f = Closed
    /\ content = << >>
    /\ rendered = << >>
    /\ dest = EmptyMap
    /\ destDir = FALSE
    /\ log = << >>
    /\ calls = << >>
    /\ errs = << >>

\* An operation of `step` failed; Len(log) says what had been written by then.
Failure(step) == [step |-> step, at |-> Len(log)]

\* try! / ? on an Err: render returns it; its locals, the handle f among
\* them, are dropped.
Fail(step) ==
    /\ pc' = "error"
    /\ errs' = Append(errs, Failure(step))
    /\ f' = Closed
    /\ UNCHANGED <<book, srcFiles, template, i, j, data, print_content, index,
                   content, rendered, dest, destDir, log, calls>>

\* book.write_file(file, bytes), succeeding.
write_file(file, bytes, kind) ==
    /\ dest' = Insert(dest, file, bytes)
    /\ log' = Append(log, [file |-> file, kind |-> kind, node |-> i, bytes |-> bytes])

\* Lines 30-43: the theme is loaded, its template and the helpers registered.
RegisterTemplate ==
    /\ pc = "register"
    /\ \/ /\ pc' = "make_data"
          /\ UNCHANGED <<book, srcFiles, template, i, j, data, print_content, index, f,
                         content, rendered, dest, destDir, log, calls, errs>>
       \/ Fail("register")

\* Lines 45-48.
MakeData ==
    /\ pc = "make_data"
    /\ LET r == make_data(book)
       IN  IF r.ok
           THEN /\ data' = r.val
                /\ print_content' = << >>
                /\ pc' = "create_dir"
                /\ UNCHANGED <<book, srcFiles, template, i, j, index, f, content,
                               rendered, dest, destDir, log, calls, errs>>
           ELSE Fail("make_data")

\* Lines 52-58.
CreateDestDir ==
    /\ pc = "create_dir"
    /\ \/ /\ destDir' = TRUE
          /\ index' = TRUE
          /\ i' = 1
          /\ pc' = "loop"
          /\ UNCHANGED <<book, srcFiles, template, j, data, print_content, f, content,
                         rendered, dest, log, calls, errs>>
       \/ Fail("create_dir")

\* Lines 59-64 and 124: the next item; one without a page is passed over.
LoopHead ==
    /\ pc = "loop"
    /\ IF i > Len(book.items)
       THEN pc' = "print_render" /\ i' = i
       ELSE IF HasPage(item)
            THEN pc' = "open" /\ i' = i
            ELSE pc' = "loop" /\ i' = i + 1
    /\ UNCHANGED <<book, srcFiles, template, j, data, print_content, index, f, content,
                   rendered, dest, destDir, log, calls, errs>>

\* Lines 66-69: File::open of the chapter's source.
OpenSource ==
    /\ pc = "open"
    /\ \/ /\ item.path \in DOMAIN srcFiles
          /\ f' = [open |-> TRUE, node |-> i, eof |-> FALSE]
          /\ pc' = "read"
          /\ UNCHANGED <<book, srcFiles, template, i, j, data, print_content, index,
                         content, rendered, dest, destDir, log, calls, errs>>
       \/ Fail("open")

\* Lines 70-73: f.read_to_string(&mut content).
ReadSource ==
    /\ pc = "read"
    /\ \/ /\ content' = srcFiles[item.path]
          /\ f' = [f EXCEPT !.eof = TRUE]
          /\ pc' = "convert"
          /\ UNCHANGED <<book, srcFiles, template, i, j, data, print_content, index,
                         rendered, dest, destDir, log, calls, errs>>
       \/ Fail("read")

\* Lines 87-90: the page's overlay on the context.
ChapterOverlay(d, ch, html) ==
    Insert(Insert(Insert(Insert(d,
        "path", to_str(ch.path)),
        "content", html),
        "chapter_title", ch.name),
        "path_to_root", path_to_root(ch.path))

\* The print buffer assigned instead of appended to.
push_strOverwrite(acc, html) == html

\* Line 82: print_content.push_str(&content).
push_str(acc, html) == acc \o html

\* Lines 76-90: playpen, markdown, the print buffer, the overlay.
Convert ==
    /\ pc = "convert"
    /\ LET html == render_markdown(render_playpen(content))
       IN  IF item.path.utf8
           THEN /\ content' = html
                /\ print_content' = push_str(print_content, html)
                /\ data' = ChapterOverlay(data, item, html)
                /\ pc' = "render"
                /\ UNCHANGED <<book, srcFiles, template, i, j, index, f, rendered,
                               dest, destDir, log, calls, errs>>
           ELSE Fail("to_str")

\* Line 94.
RenderPage ==
    /\ pc = "render"
    /\ \/ /\ rendered' = Render(data, template)
          /\ calls' = Append(calls, [page |-> "chapter", node |-> i, ctx |-> data])
          /\ pc' = "write"
          /\ UNCHANGED <<book, srcFiles, template, i, j, data, print_content, index, f,
                         content, dest, destDir, log, errs>>
       \/ Fail("render")

\* Lines 97-102.
WritePage ==
    /\ pc = "write"
    /\ \/ /\ write_file(with_extension(item.path, "html"), rendered, "page")
          /\ pc' = IF index THEN "index_read" ELSE "end_block"
          /\ UNCHANGED <<book, srcFiles, template, i, j, data, print_content, index, f,
                         content, rendered, destDir, calls, errs>>
       \/ Fail("write")

\* What read_to_string may leave in the buffer when it fails part-way.
PartialReads(page) ==
    { SubSeq(page, 1, n) : n \in { m \in 0..MaxPartial : m < Len(page) } }

\* Lines 105-107: the page just written is opened and read back.  try! covers
\* File::open only; the Result of read_to_string is bound to _source and
\* dropped, and content then holds what had been read.
IndexRead ==
    /\ pc = "index_read"
    /\ LET page == dest[with_extension(item.path, "html")]
       IN  \/ /\ content' = page
              /\ pc' = "index_write"
              /\ UNCHANGED <<book, srcFiles, template, i, j, data, print_content, index,
                             f, rendered, dest, destDir, log, calls, errs>>
           \/ \E part \in PartialReads(page) :
                 /\ content' = part
                 /\ errs' = Append(errs, Failure("index_read"))
                 /\ pc' = "index_write"
                 /\ UNCHANGED <<book, srcFiles, template, i, j, data, print_content,
                                index, f, rendered, dest, destDir, log, calls>>
           \/ Fail("index_open")

\* The flag left set.
ClearIndexNever == TRUE

\* Line 120: index = false.
ClearIndex == FALSE

\* Lines 111-120.
IndexWrite ==
    /\ pc = "index_write"
    /\ \/ /\ content' = FilterBaseHref(content)
          /\ write_file(IndexHtml, FilterBaseHref(content), "index")
          /\ index' = ClearIndex
          /\ pc' = "end_block"
          /\ UNCHANGED <<book, srcFiles, template, i, j, data, print_content, f,
                         rendered, destDir, calls, errs>>
       \/ Fail("index_write")

\* The handle kept past the block.
DropHandleLeak(h) == h

\* The handle after line 122, where the block that declared f ends.
DropHandle(h) == Closed

\* Line 122: the block of the item ends, f goes out of scope.
EndBlock ==
    /\ pc = "end_block"
    /\ f' = DropHandle(f)
    /\ i' = i + 1
    /\ pc' = "loop"
    /\ UNCHANGED <<book, srcFiles, template, j, data, print_content, index, content,
                   rendered, dest, destDir, log, calls, errs>>

\* Lines 131-133: the print page's overlay on the context.
PrintOverlay(d, html) ==
    Insert(Insert(Insert(d,
        "path", to_str(PrintMd)),
        "content", html),
        "path_to_root", path_to_root(PrintMd))

\* Lines 131-137.
PrintRender ==
    /\ pc = "print_render"
    /\ \/ /\ data' = PrintOverlay(data, print_content)
          /\ rendered' = Render(PrintOverlay(data, print_content), template)
          /\ calls' = Append(calls, [page |-> "print", node |-> i,
                                     ctx |-> PrintOverlay(data, print_content)])
          /\ pc' = "print_write"
          /\ UNCHANGED <<book, srcFiles, template, i, j, print_content, index, f,
                         content, dest, destDir, log, errs>>
       \/ /\ data' = PrintOverlay(data, print_content)
          /\ pc' = "error"
          /\ errs' = Append(errs, Failure("print_render"))
          /\ UNCHANGED <<book, srcFiles, template, i, j, print_content, index, f,
                         content, rendered, dest, destDir, log, calls>>

\* Line 138.
PrintWrite ==
    /\ pc = "print_write"
    /\ \/ /\ write_file(PrintHtml, rendered, "print")
          /\ j' = 1
          /\ pc' = "assets"
          /\ UNCHANGED <<book, srcFiles, template, i, data, print_content, index, f,
                         content, rendered, destDir, calls, errs>>
       \/ Fail("print_write")

\* Lines 144-157, one write_file each.
WriteAsset ==
    /\ pc = "assets"
    /\ \/ /\ write_file(Assets[j].file, Assets[j].bytes, "asset")
          /\ j' = IF j = Len(Assets) THEN 0 ELSE j + 1
          /\ pc' = IF j = Len(Assets) THEN "copy" ELSE "assets"
          /\ UNCHANGED <<book, srcFiles, template, i, data, print_content, index, f,
                         content, rendered, destDir, calls, errs>>
       \/ Fail("asset")

\* The files copy_files_except_ext has copied so far.
Copied == { log[n].file : n \in { m \in 1..Len(log) : log[m].kind = "copy" } }

\* The files copy_files_except_ext(src, dest, true, &["md"]) is to copy.
ToCopy == { p \in DOMAIN srcFiles : p.ext # "md" }

\* Lines 160-162: every file of the source tree without the md extension is
\* copied to the same relative path, in the directory's order.
CopyFiles ==
    /\ pc = "copy"
    /\ \/ /\ ToCopy \ Copied # {}
          /\ \E p \in ToCopy \ Copied : write_file(p, srcFiles[p], "copy")
          /\ UNCHANGED <<book, srcFiles, template, pc, i, j, data, print_content, index,
                         f, content, rendered, destDir, calls, errs>>
       \/ /\ ToCopy \ Copied # {}
          /\ Fail("copy")
       \/ /\ ToCopy \ Copied = {}
          /\ pc' = "done"
          /\ UNCHANGED <<book, srcFiles, template, i, j, data, print_content, index, f,
                         content, rendered, dest, destDir, log, calls, errs>>

Next ==
    \/ RegisterTemplate
    \/ MakeData
    \/ CreateDestDir
    \/ LoopHead
    \/ OpenSource
    \/ ReadSource
    \/ Convert
    \/ RenderPage
    \/ WritePage
    \/ IndexRead
    \/ IndexWrite
    \/ EndBlock
    \/ PrintRender
    \/ PrintWrite
    \/ WriteAsset
    \/ CopyFiles

Spec == Init /\ [][Next]_vars

----------------------------------------------------------------------------
(* Vocabulary of the properties, stated from the book tree and the source *)
(* tree alone                                                             *)

\* The Chapter/Affix nodes whose path is non-empty, by position.
ContentNodes ==
    { n \in 1..Len(book.items) :
        /\ book.items[n].kind \in { "Chapter", "Affix" }
        /\ book.items[n].path # EmptyPath }

\* Some Chapter or Affix has a path that is not text.
HasBadPath ==
    \E n \in 1..Len(book.items) :
        book.items[n].kind \in { "Chapter", "Affix" } /\ ~book.items[n].path.utf8

\* The positions of the log that hold a write of the given kind.
LogOf(kind) == { n \in 1..Len(log) : log[n].kind = kind }

CallsOf(page) == { k \in 1..Len(calls) : calls[k].page = page }

MinOf(S) == CHOOSE x \in S : \A y \in S : x <= y

\* The converted HTML of node n.
HtmlOf(n) == render_markdown(render_playpen(srcFiles[book.items[n].path]))

RECURSIVE ConcatHtml(_)
\* The converted HTML of the content nodes among the first n items, in order.
ConcatHtml(n) ==
    IF n = 0 THEN << >>
    ELSE ConcatHtml(n - 1) \o (IF n \in ContentNodes THEN HtmlOf(n) ELSE << >>)

RECURSIVE LinesWithEndings(_)
\* The lines of t, each with its own line ending.
LinesWithEndings(t) ==
    IF t = << >> THEN << >>
    ELSE IF ~contains(t, NL) THEN << t >>
    ELSE LET n == FirstNL(t)
         IN  << SubSeq(t, 1, n) >> \o LinesWithEndings(SubSeq(t, n + 1, Len(t)))

RECURSIVE Flatten(_)
Flatten(ls) == IF ls = << >> THEN << >> ELSE ls[1] \o Flatten(Tail(ls))

\* t without its lines that contain BASE, every other byte kept.
WithoutBaseHrefLines(t) ==
    Flatten(SelectSeq(LinesWithEndings(t), LAMBDA line : ~contains(line, BASE)))

\* The chapters entry the context must hold for item it.
SummaryOf(it, entry) ==
    CASE it.kind = "Spacer" ->
            DOMAIN entry = { "spacer" }
      [] it.kind = "Affix" ->
            /\ DOMAIN entry = { "name", "path" }
            /\ entry.name = it.name
            /\ entry.path = << it.path.dirs, it.path.stem, it.path.ext >>
      [] OTHER ->
            /\ DOMAIN entry = { "section", "name", "path" }
            /\ entry.section = it.section
            /\ entry.name = it.name
            /\ entry.path = << it.path.dirs, it.path.stem, it.path.ext >>

IsBookSummary(chapters) ==
    /\ Len(chapters) = Len(book.items)
    /\ \A n \in 1..Len(book.items) : SummaryOf(book.items[n], chapters[n])

----------------------------------------------------------------------------
(* Properties *)

\* C1: after a successful render in which nothing failed, the destination
\* holds as many files written as chapter pages as the book has Chapter/Affix
\* nodes with a non-empty path: each such node has a file of its own.  (The
\* derived index.html and the print page are no chapter pages and are not
\* counted.)
C1_OneFilePerNode ==
    (pc = "done" /\ errs = << >>) =>
        Cardinality({ log[n].file : n \in LogOf("page") }) = Cardinality(ContentNodes)

\* C2 as stated: in every successful render index.html is derived and written
\* exactly once.
C2_IndexExactlyOnce ==
    pc = "done" => Cardinality(LogOf("index")) = 1

\* C2 as amended: index derivation writes index.html at most once; in a
\* successful render exactly once when the book has a content node and not at
\* all when it has none; the write is for the first content node in traversal
\* order and directly follows the write of that node's own page.
C2_IndexDerivation ==
    /\ Cardinality(LogOf("index")) <= 1
    /\ pc = "done" =>
          Cardinality(LogOf("index")) = (IF ContentNodes = {} THEN 0 ELSE 1)
    /\ \A n \in LogOf("index") :
          /\ log[n].file = IndexHtml
          /\ log[n].node = MinOf(ContentNodes)
          /\ n > 1
          /\ log[n - 1].kind = "page"
          /\ log[n - 1].node = log[n].node

\* C2 witness: a finished render of a book with two content nodes, index.html
\* derived once although two pages were written.
C2_Witness ==
    /\ pc = "done"
    /\ Cardinality(ContentNodes) = 2
    /\ Cardinality(LogOf("page")) = 2
    /\ Cardinality(LogOf("index")) = 1

\* C3: the bytes written to index.html are the first page's bytes without the
\* lines that contain a base href, every other byte (line endings and the
\* final newline too) kept.  Stated for renders in which no read has failed.
C3_IndexIsFilteredPage ==
    \A n \in LogOf("index") :
        (errs = << >> /\ n > 1) => log[n].bytes = WithoutBaseHrefLines(log[n - 1].bytes)

\* C4: the print page is written exactly once in a successful render and at
\* most once in any, after the page of every content node, and the content
\* field of its render call is the converted HTML of the content nodes,
\* concatenated in traversal order with nothing between.
C4_PrintPage ==
    /\ Cardinality(LogOf("print")) <= 1
    /\ Cardinality(CallsOf("print")) <= 1
    /\ pc = "done" => Cardinality(LogOf("print")) = 1
    /\ \A n \in LogOf("print") :
          /\ log[n].file = PrintHtml
          /\ \A m \in LogOf("page") : m < n
          /\ \A c \in ContentNodes : \E m \in LogOf("page") : log[m].node = c
          /\ Cardinality(CallsOf("print")) = 1
    /\ \A k \in CallsOf("print") :
          calls[k].ctx.content = ConcatHtml(Len(book.items))

\* C4 witness: a finished render of two content nodes with different sources.
C4_Witness ==
    /\ pc = "done"
    /\ Cardinality(ContentNodes) = 2
    /\ book.items[1].path # book.items[2].path
    /\ Cardinality(LogOf("print")) = 1

\* C5: the context of the print page's render call has no chapter_title.
C5_PrintHasNoChapterTitle ==
    \A k \in CallsOf("print") : "chapter_title" \notin DOMAIN calls[k].ctx

\* C6: every failed operation makes render return the error at once: after
\* any failure render is in its error exit and nothing has been written since.
C6_ErrorsAbort ==
    \A e \in 1..Len(errs) : pc = "error" /\ Len(log) = errs[e].at

\* C7: when some Chapter or Affix has a path that is not text, render never
\* gets past make_data: nothing is written, rendered or created, and render
\* cannot finish successfully.
C7_BadPathNoOutput ==
    HasBadPath =>
        /\ pc \in { "register", "make_data", "error" }
        /\ log = << >>
        /\ dest = EmptyMap
        /\ ~destDir
        /\ calls = << >>

\* C7 witness: render has returned the error for a book whose first node is a
\* renderable chapter and whose second node has the bad path.
C7_Witness ==
    /\ pc = "error"
    /\ Len(book.items) = 2
    /\ 1 \in ContentNodes
    /\ book.items[1].path.utf8
    /\ ~book.items[2].path.utf8
    /\ Len(errs) = 1
    /\ errs[1].step = "make_data"

\* C8: once make_data has run, the context's chapters list has one entry per
\* node of the book tree, in order (a spacer marker for a Spacer, name and path
\* for an empty-path node), and every render call, chapter page or print page,
\* is passed that list.
C8_ChaptersList ==
    /\ pc \notin { "register", "make_data", "error" } =>
          "chapters" \in DOMAIN data /\ IsBookSummary(data.chapters)
    /\ "chapters" \in DOMAIN data => IsBookSummary(data.chapters)
    /\ \A k \in 1..Len(calls) :
          "chapters" \in DOMAIN calls[k].ctx /\ IsBookSummary(calls[k].ctx.chapters)

\* C8 witness: a chapter page and the print page have been rendered for a book
\* that holds a content node and a Spacer or an empty-path node.
C8_Witness ==
    /\ CallsOf("chapter") # {}
    /\ CallsOf("print") # {}
    /\ \E n \in 1..Len(book.items) : n \notin ContentNodes

\* C9 as stated: while write_file of a page executes, the handle of that
\* page's source is closed.
C9_HandleClosedAtWrite ==
    pc = "write" => ~f.open

\* C9 as amended: when write_file of a page begins, the source of that page
\* has been read to its end, and its handle is still open; the handle is
\* closed when the item's block ends, so none is open when the next item is
\* taken, when the print page, the assets and the copies are written, or after
\* render has returned.
C9_ReadBeforeWrite ==
    /\ pc = "write" => (f.open /\ f.eof /\ f.node = i)
    /\ pc \in { "index_read", "index_write", "end_block" } => (f.open /\ f.eof)
    /\ pc \in { "loop", "open", "print_render", "print_write", "assets", "copy",
                "done", "error" } => ~f.open

\* C9 witness: the second page of a book is about to be written.
C9_Witness ==
    /\ pc = "write"
    /\ i = 2
    /\ f.open
    /\ f.eof
    /\ Cardinality(LogOf("page")) = 1

\* C10: after a successful render in which nothing failed, the file of every
\* rendered chapter page holds the HTML rendered for that chapter.
C10_PagesKept ==
    (pc = "done" /\ errs = << >>) =>
        \A n \in LogOf("page") : dest[log[n].file] = log[n].bytes

====
